---- MODULE Spec2Model ----
(***************************************************************************)
(* Model of the voice agent of virtual-kin-connect: the speech-turn        *)
(* segmentation loop (handle_audio_track / process_vad), the utterance     *)
(* tasks (transcribe_and_respond), the dialogue manager (respond) and the  *)
(* reply speaker (speak / _speak), as asyncio tasks of one event loop.     *)
(*                                                                         *)
(* One action is one run of a task between two suspension points (await).  *)
(* The LLM request in respond() is a synchronous call: while it is         *)
(* outstanding the event loop is blocked (llm_busy # 0) and no other task  *)
(* runs.                                                                   *)
(*                                                                         *)
(*   Spec     the VAD + local-Whisper variant                              *)
(*            (src/voice-agent/agent_working.py)                           *)
(*   SpecStt  the streaming-STT variant (src/agent_working.py), where      *)
(*            every final transcript spawns a respond() task               *)
(*   SpecUtt  one utterance of the local-Whisper variant from its handoff   *)
(*            on, for segments of chosen sizes, transcripts and histories, *)
(*            with a TTS backend that can fail                             *)
(*   SpecFail, SpecStart, SpecLong, SpecLive, SpecTracks                   *)
(*            sessions with failing backends, the start of a session, a    *)
(*            long speech turn, termination under fairness, and the        *)
(*            subscription to the participant's tracks                     *)
(***************************************************************************)
EXTENDS Naturals, Sequences, FiniteSets, TLC

VARIABLES
    entry_pc,          \* position of entrypoint()
    entry_reply,       \* reply task entrypoint() is awaiting in speak(), 0 if none
    whisper_pc,        \* load_whisper_background: "idle", "loading", "loaded", "ready", "failed"
    whisper_model,     \* TRUE when the global whisper_model is not None
    whisper_ready,     \* the asyncio.Event whisper_ready
    is_speaking,       \* SpeechState: TRUE = Speaking
    speech_frames,     \* segment buffer: sequence of frame numbers
    frame_count,       \* frames handled by the frame loop
    vad_fed,           \* frames pushed to vad_stream, in order
    tasks,             \* live utterance tasks: id -> [pc, frames, tts, pre, log]:
                       \* log is "errore" once _speak has logged "Errore TTS" for tts
    next_uid,          \* utterance tasks created so far
    replies,           \* live (not done) _speak tasks: id -> [state, cancel, sent]
    next_rid,          \* _speak tasks created so far
    current_tts_task,  \* the global current_tts_task: a reply id, 0 = None
    messages,          \* ConversationHistory
    llm_busy,          \* utterance task inside client.messages.create, 0 if none
    since_start,       \* history: frames handled since the last StartOfSpeech was processed
    handoffs,          \* history: handoffs since the last StartOfSpeech was processed
    handed_off,        \* history: the segments handed off so far, in order
    dropped,           \* history: frames a StartOfSpeech removed from the buffer
    llm_failures,      \* history: LLM requests that failed
    frame_samples,     \* samples of each frame handled: len(frame.data) / 2, by frame number
    said,              \* input: the text the speech-to-text backend hears in the audio
    stt_calls,         \* history: invocations of the transcription backend
    stt_events,        \* history: final events process_stt has handled (SpecStt)
    published,         \* the tracks of participant.track_publications that are subscribed
    already_handled,   \* the set already_handled of entrypoint(): track ids
    handlers,          \* history: handle_audio_track tasks created, by track id
    track_events       \* history: subscriptions of a track the room has reported

vars == <<entry_pc, entry_reply, whisper_pc, whisper_model, whisper_ready,
          is_speaking, speech_frames, frame_count, vad_fed, tasks, next_uid,
          replies, next_rid, current_tts_task, messages, llm_busy,
          since_start, handoffs, handed_off, dropped, llm_failures,
          frame_samples, said, stt_calls, stt_events,
          published, already_handled, handlers, track_events>>

sub_vars     == <<published, already_handled, handlers, track_events>>
entry_vars   == <<entry_pc, entry_reply, sub_vars>>
whisper_vars == <<whisper_pc, whisper_model, whisper_ready>>
track_vars   == <<is_speaking, speech_frames, frame_count, vad_fed,
                  since_start, handoffs, handed_off, dropped, frame_samples>>
stt_vars     == <<said, stt_calls, stt_events>>
task_vars    == <<tasks, next_uid>>
reply_vars   == <<replies, next_rid, current_tts_task>>

\* ------------------------------------------------------------------ bounds
\* audio frames delivered by the transport
MaxFrames == 4
\* audio chunks a TTS stream yields at most
MaxChunks == 2
\* final transcripts delivered by the streaming STT (SpecStt)
MaxTurns == 11
\* respond() tasks alive when the streaming STT delivers a final transcript (SpecStt)
MaxLive == 1
\* samples in every frame the transport delivers (Spec)
FrameSamples == 24000
\* frames in the segment of an utterance (SpecUtt)
MaxSegFrames == 2
\* subscriptions of a track the room reports in a session (SpecTracks)
MaxTrackEvents == 3

\* ------------------------------------------------------- program constants
\* "if len(messages) > 20: messages[:] = messages[-20:]"
HistoryCap == 20
\* "len(text.strip()) < 2"
MinTextLen == 2
\* "if len(text) > 2:" in process_stt of the streaming-STT variant
SttTextLen == 2
\* "SAMPLE_RATE = 48000"
SampleRate == 48000
\* "WHISPER_SAMPLE_RATE = 16000"
WhisperSampleRate == 16000
\* "MIN_SPEECH_DURATION = 0.5", in milliseconds
MinSpeechMillis == 500
\* "MAX_SPEECH_DURATION = 30.0", in milliseconds
MaxSpeechMillis == 30000

\* texts a speech-to-text backend can produce, before any strip()
BackendTexts == { <<>>, <<" ">>, <<"k">>, <<" ", "k", " ">>, <<"o", "k">>,
                  <<"y", "e", "s">> }
\* the backend raises instead of producing a text
BackendError == <<"Exception">>
\* everything a call of the transcription backend can end with
Transcripts == BackendTexts \cup {BackendError}

\* --------------------------------------------------------------- helpers
Last(s) == s[Len(s)]
Front(s) == SubSeq(s, 1, Len(s) - 1)

\* task.done() for a reply task that has been created
Done(r) == r \notin DOMAIN replies

\* mutant: the truncation keeps the oldest entries
Truncate_KeepsOldest(msgs) ==
    IF Len(msgs) > HistoryCap THEN SubSeq(msgs, 1, HistoryCap) ELSE msgs

\* "messages[:] = messages[-20:]" under "if len(messages) > 20"
Truncate(msgs) ==
    IF Len(msgs) > HistoryCap
    THEN SubSeq(msgs, Len(msgs) - HistoryCap + 1, Len(msgs))
    ELSE msgs

\* messages.append({"role": "user", ...}) followed by the truncation
AppendUser(msgs, c) == Truncate(Append(msgs, [role |-> "user", content |-> c]))

\* mutant: the assistant turn is not appended
AppendAssistant_Skip(msgs, c) == msgs

\* messages.append({"role": "assistant", ...})
AppendAssistant(msgs, c) == Append(msgs, [role |-> "assistant", content |-> c])

\* mutant: the failure branch leaves the history as it is
Rollback_Keep(msgs) == msgs

\* "if messages and messages[-1]["role"] == "user": messages.pop()"
Rollback(msgs) ==
    IF Len(msgs) > 0 /\ Last(msgs).role = "user" THEN Front(msgs) ELSE msgs

\* mutant: the reply in flight is not cancelled
CancelCurrent_Never(rs, cur) == rs

\* "if current_tts_task and not current_tts_task.done(): current_tts_task.cancel()"
CancelCurrent(rs, cur) ==
    IF cur # 0 /\ cur \in DOMAIN rs
    THEN [rs EXCEPT ![cur].cancel = TRUE]
    ELSE rs

\* "current_tts_task = asyncio.create_task(_speak())": the new task is
\* scheduled, it has not run yet
CreateReply(rs, r) == rs @@ (r :> [state |-> "created", cancel |-> FALSE, sent |-> 0])

\* str.strip(): leading and trailing blanks removed
RECURSIVE LStrip(_)
LStrip(t) == IF t # <<>> /\ Head(t) = " " THEN LStrip(Tail(t)) ELSE t
RECURSIVE RStrip(_)
RStrip(t) == IF t # <<>> /\ Last(t) = " " THEN RStrip(Front(t)) ELSE t
Strip(t) == RStrip(LStrip(t))

\* a function without the key k
Remove(f, k) == [x \in DOMAIN f \ {k} |-> f[x]]

\* ------------------------------------------------ the participant's tracks
\* track ids (sid) of the participant: two audio tracks and a video track
Tracks == {"mic", "mic2", "cam"}

\* "track.kind == rtc.TrackKind.KIND_AUDIO"
AudioTracks == {"mic", "mic2"}

\* the microphone track the participant has published when the session starts
MicOnly == {"mic"}

\* no handle_audio_track task has been created
NoHandlers == [t \in Tracks |-> 0]

\* "already_handled.add(track_id)" under "if track_id not in already_handled"
HandledAfter(handled, t) == handled \cup {t}

\* mutant: a handler task is created for every call
StartedAfter_Always(handled, started, t) == [started EXCEPT ![t] = @ + 1]

\* start_track_handler: asyncio.create_task(handle_audio_track(...)) under
\* "if track_id not in already_handled"
StartedAfter(handled, started, t) ==
    IF t \in handled THEN started ELSE [started EXCEPT ![t] = @ + 1]

\* "for pub in participant.track_publications.values(): if pub.track and
\* pub.track.kind == KIND_AUDIO: start_track_handler(pub.track)":
\* already_handled and the handlers created, after the loop over pubs
RECURSIVE ScanTracks(_, _, _)
ScanTracks(pubs, handled, started) ==
    IF pubs = {} THEN [handled |-> handled, started |-> started]
    ELSE LET t == CHOOSE x \in pubs : TRUE
         IN  IF t \in AudioTracks
             THEN ScanTracks(pubs \ {t}, HandledAfter(handled, t),
                             StartedAfter(handled, started, t))
             ELSE ScanTracks(pubs \ {t}, handled, started)

\* "already_handled = set()", the scan of the tracks that exist, and the
\* registration of on_track_subscribed, all in one run of entrypoint()
SubscribeTracks ==
    LET scan == ScanTracks(published, {}, handlers)
    IN  /\ already_handled' = scan.handled
        /\ handlers' = scan.started
        /\ UNCHANGED <<published, track_events>>

\* mutant: the LLM request is awaited, the event loop runs the other tasks
LoopFree_Awaited == TRUE

\* the event loop runs a task only while no synchronous call blocks it
LoopFree == llm_busy = 0

\* ------------------------------------------------------------------- Init
InitState ==
    /\ entry_pc = "start"
    /\ entry_reply = 0
    /\ whisper_pc = "idle"
    /\ whisper_model = FALSE
    /\ whisper_ready = FALSE
    /\ is_speaking = FALSE
    /\ speech_frames = <<>>
    /\ frame_count = 0
    /\ vad_fed = <<>>
    /\ tasks = <<>>
    /\ next_uid = 0
    /\ replies = <<>>
    /\ next_rid = 0
    /\ current_tts_task = 0
    /\ messages = <<>>
    /\ llm_busy = 0
    /\ since_start = <<>>
    /\ handoffs = 0
    /\ handed_off = <<>>
    /\ dropped = {}
    /\ llm_failures = 0
    /\ frame_samples = <<>>
    /\ stt_calls = 0
    /\ stt_events = 0
    /\ already_handled = {}
    /\ handlers = NoHandlers
    /\ track_events = 0

\* the local-Whisper variant: the transcript is drawn when a transcription
\* returns; the participant has published the microphone track
Init == InitState /\ said = <<>> /\ published = MicOnly

\* the streaming-STT variant: what the user says in the final transcripts
InitStt == InitState /\ said \in BackendTexts /\ published = MicOnly

\* ------------------------------------------------------- load_whisper_background
\* _load_whisper_sync in the executor thread: the global whisper_model is set
WhisperLoaded ==
    /\ whisper_pc = "loading"
    /\ whisper_pc' = "loaded"
    /\ whisper_model' = TRUE
    /\ UNCHANGED <<whisper_ready, entry_vars, track_vars, task_vars, reply_vars,
                   messages, llm_busy, llm_failures, stt_vars>>

\* load_whisper_background resumes after run_in_executor: whisper_ready.set()
WhisperSignal ==
    /\ LoopFree
    /\ whisper_pc = "loaded"
    /\ whisper_pc' = "ready"
    /\ whisper_ready' = TRUE
    /\ UNCHANGED <<whisper_model, entry_vars, track_vars, task_vars, reply_vars,
                   messages, llm_busy, llm_failures, stt_vars>>

\* the load raises: the except branch logs, whisper_ready is never set
WhisperFail ==
    /\ whisper_pc = "loading"
    /\ whisper_pc' = "failed"
    /\ UNCHANGED <<whisper_model, whisper_ready, entry_vars, track_vars, task_vars,
                   reply_vars, messages, llm_busy, llm_failures, stt_vars>>

\* ------------------------------------------------------------------ speak
\* speak(): a new _speak task becomes current_tts_task; the caller awaits it
Speak ==
    /\ next_rid' = next_rid + 1
    /\ replies' = CreateReply(replies, next_rid + 1)
    /\ current_tts_task' = next_rid + 1

\* ------------------------------------------------- entrypoint (voice-agent)
\* ctx.connect, then asyncio.create_task(load_whisper_background())
EntryConnect ==
    /\ entry_pc = "start"
    /\ entry_pc' = "connected"
    /\ UNCHANGED sub_vars
    /\ whisper_pc' = "loading"
    /\ UNCHANGED <<entry_reply, whisper_model, whisper_ready, track_vars, task_vars,
                   reply_vars, messages, llm_busy, llm_failures, stt_vars>>

\* await speak(greeting)
EntryGreet ==
    /\ LoopFree
    /\ entry_pc = "connected"
    /\ Speak
    /\ entry_pc' = "greet_wait"
    /\ UNCHANGED sub_vars
    /\ entry_reply' = next_rid + 1
    /\ UNCHANGED <<whisper_vars, track_vars, task_vars, messages, llm_busy, llm_failures, stt_vars>>

\* the greeting task is done: entrypoint goes on to wait_for(whisper_ready.wait())
EntryGreetDone ==
    /\ LoopFree
    /\ entry_pc = "greet_wait"
    /\ Done(entry_reply)
    /\ entry_pc' = "wait_ready"
    /\ UNCHANGED sub_vars
    /\ entry_reply' = 0
    /\ UNCHANGED <<whisper_vars, track_vars, task_vars, reply_vars, messages, llm_busy, llm_failures, stt_vars>>

\* whisper_ready is set within the timeout: speak(ready notice)
EntryReady ==
    /\ LoopFree
    /\ entry_pc = "wait_ready"
    /\ whisper_ready
    /\ Speak
    /\ entry_pc' = "ready_wait"
    /\ UNCHANGED sub_vars
    /\ entry_reply' = next_rid + 1
    /\ UNCHANGED <<whisper_vars, track_vars, task_vars, messages, llm_busy, llm_failures, stt_vars>>

\* mutant: after the timeout the entrypoint goes on to start the track handler
EntryTimeout_Proceeds ==
    /\ LoopFree
    /\ entry_pc = "wait_ready"
    /\ ~whisper_ready
    /\ Speak
    /\ entry_pc' = "ready_wait"
    /\ UNCHANGED sub_vars
    /\ entry_reply' = next_rid + 1
    /\ UNCHANGED <<whisper_vars, track_vars, task_vars, messages, llm_busy, llm_failures, stt_vars>>

\* mutant: the wait for whisper_ready has no timeout once the load has failed
EntryTimeout_NotAfterFailure ==
    /\ LoopFree
    /\ entry_pc = "wait_ready"
    /\ ~whisper_ready
    /\ whisper_pc # "failed"
    /\ Speak
    /\ entry_pc' = "problem_wait"
    /\ UNCHANGED sub_vars
    /\ entry_reply' = next_rid + 1
    /\ UNCHANGED <<whisper_vars, track_vars, task_vars, messages, llm_busy, llm_failures, stt_vars>>

\* asyncio.TimeoutError after 120 s without whisper_ready: speak(problem notice)
EntryTimeout ==
    /\ LoopFree
    /\ entry_pc = "wait_ready"
    /\ ~whisper_ready
    /\ Speak
    /\ entry_pc' = "problem_wait"
    /\ UNCHANGED sub_vars
    /\ entry_reply' = next_rid + 1
    /\ UNCHANGED <<whisper_vars, track_vars, task_vars, messages, llm_busy, llm_failures, stt_vars>>

\* the ready notice is done: the audio tracks that exist get their handler,
\* on_track_subscribed is registered; the handler of the microphone track sets
\* speech_frames = [], is_speaking = False, frame_count = 0
EntryListen ==
    /\ LoopFree
    /\ entry_pc = "ready_wait"
    /\ Done(entry_reply)
    /\ entry_pc' = "listening"
    /\ entry_reply' = 0
    /\ SubscribeTracks
    /\ is_speaking' = FALSE
    /\ speech_frames' = <<>>
    /\ frame_count' = 0
    /\ UNCHANGED <<whisper_vars, vad_fed, since_start, handoffs, handed_off, dropped,
                   frame_samples, task_vars, reply_vars, messages, llm_busy, llm_failures, stt_vars>>

\* the problem notice is done: "return"
EntryReturn ==
    /\ LoopFree
    /\ entry_pc = "problem_wait"
    /\ Done(entry_reply)
    /\ entry_pc' = "returned"
    /\ UNCHANGED sub_vars
    /\ entry_reply' = 0
    /\ UNCHANGED <<whisper_vars, track_vars, task_vars, reply_vars, messages, llm_busy, llm_failures, stt_vars>>

\* ------------------------------------------------------------ _speak task
\* a line _speak logs ("Errore TTS"), kept with the utterance task that awaits
\* the reply
LogOutcome(ts, r, line) ==
    [u \in DOMAIN ts |-> IF ts[u].tts = r THEN [ts[u] EXCEPT !.log = line] ELSE ts[u]]

\* first run of the task: tts.synthesize(text) is entered, the task awaits
\* the first chunk
SpeakStart(r) ==
    /\ LoopFree
    /\ r \in DOMAIN replies
    /\ replies[r].state = "created"
    /\ ~replies[r].cancel
    /\ replies' = [replies EXCEPT ![r].state = "streaming"]
    /\ UNCHANGED <<next_rid, current_tts_task, entry_vars, whisper_vars, track_vars,
                   task_vars, messages, llm_busy, llm_failures, stt_vars>>

\* mutant: a task whose cancellation was requested still forwards a chunk
SpeakChunk_IgnoresCancel(r) ==
    /\ LoopFree
    /\ r \in DOMAIN replies
    /\ replies[r].state = "streaming"
    /\ replies[r].sent < MaxChunks
    /\ replies' = [replies EXCEPT ![r].sent = @ + 1]
    /\ UNCHANGED <<next_rid, current_tts_task, entry_vars, whisper_vars, track_vars,
                   task_vars, messages, llm_busy, llm_failures, stt_vars>>

\* the stream yields a chunk: source.capture_frame(audio.frame)
SpeakChunk(r) ==
    /\ LoopFree
    /\ r \in DOMAIN replies
    /\ replies[r].state = "streaming"
    /\ ~replies[r].cancel
    /\ replies[r].sent < MaxChunks
    /\ replies' = [replies EXCEPT ![r].sent = @ + 1]
    /\ UNCHANGED <<next_rid, current_tts_task, entry_vars, whisper_vars, track_vars,
                   task_vars, messages, llm_busy, llm_failures, stt_vars>>

\* the stream ends: "TTS completato", the task is done
SpeakComplete(r) ==
    /\ LoopFree
    /\ r \in DOMAIN replies
    /\ replies[r].state = "streaming"
    /\ ~replies[r].cancel
    /\ replies' = Remove(replies, r)
    /\ UNCHANGED <<next_rid, current_tts_task, entry_vars, whisper_vars, track_vars,
                   task_vars, messages, llm_busy, llm_failures, stt_vars>>

\* mutant: the error is logged and the stream goes on
SpeakError_StreamsOn(r) ==
    /\ LoopFree
    /\ r \in DOMAIN replies
    /\ replies[r].state = "streaming"
    /\ ~replies[r].cancel
    /\ \E u \in DOMAIN tasks : tasks[u].tts = r /\ tasks[u].log = "none"
    /\ tasks' = LogOutcome(tasks, r, "errore")
    /\ UNCHANGED <<replies, next_rid, current_tts_task, entry_vars, whisper_vars,
                   track_vars, next_uid, messages, llm_busy, llm_failures, stt_vars>>

\* the TTS backend or the sink raises: "except Exception", the task is done
SpeakError(r) ==
    /\ LoopFree
    /\ r \in DOMAIN replies
    /\ replies[r].state = "streaming"
    /\ ~replies[r].cancel
    /\ replies' = Remove(replies, r)
    /\ tasks' = LogOutcome(tasks, r, "errore")
    /\ UNCHANGED <<next_rid, current_tts_task, entry_vars, whisper_vars, track_vars,
                   next_uid, messages, llm_busy, llm_failures, stt_vars>>

\* mutant: the cancellation takes respond() through its failure branch
SpeakCancelled_Fails(r) ==
    /\ LoopFree
    /\ r \in DOMAIN replies
    /\ replies[r].cancel
    /\ replies' = Remove(replies, r)
    /\ messages' = Rollback(messages)
    /\ llm_failures' = llm_failures + 1
    /\ UNCHANGED <<next_rid, current_tts_task, entry_vars, whisper_vars, track_vars,
                   task_vars, llm_busy, stt_vars>>

\* mutant: a cancellation requested before the first run of the task is lost
SpeakCancelled_OnlyStreaming(r) ==
    /\ LoopFree
    /\ r \in DOMAIN replies
    /\ replies[r].cancel
    /\ replies[r].state = "streaming"
    /\ replies' = Remove(replies, r)
    /\ UNCHANGED <<next_rid, current_tts_task, entry_vars, whisper_vars, track_vars,
                   task_vars, messages, llm_busy, llm_failures, stt_vars>>

\* the next run of a task whose cancellation was requested: CancelledError
\* is thrown into it ("except asyncio.CancelledError"), the task is done
SpeakCancelled(r) ==
    /\ LoopFree
    /\ r \in DOMAIN replies
    /\ replies[r].cancel
    /\ replies' = Remove(replies, r)
    /\ UNCHANGED <<next_rid, current_tts_task, entry_vars, whisper_vars, track_vars,
                   task_vars, messages, llm_busy, llm_failures, stt_vars>>

\* ------------------------------------------- handle_audio_track: frame loop
\* mutant: the frame is buffered whatever SpeechState is
BufferFrame_Always(buf, speaking, f) == Append(buf, f)

\* mutant: the frame is buffered while SpeechState is Idle
BufferFrame_WhenIdle(buf, speaking, f) == IF speaking THEN buf ELSE Append(buf, f)

\* "if is_speaking: speech_frames.append(audio_event.frame)"
BufferFrame(buf, speaking, f) == IF speaking THEN Append(buf, f) ELSE buf

\* one iteration of "async for audio_event in audio_stream"
HandleFrame ==
    /\ LoopFree
    /\ entry_pc = "listening"
    /\ frame_count < MaxFrames
    /\ frame_count' = frame_count + 1
    /\ vad_fed' = Append(vad_fed, frame_count + 1)
    /\ speech_frames' = BufferFrame(speech_frames, is_speaking, frame_count + 1)
    /\ since_start' = Append(since_start, frame_count + 1)
    /\ frame_samples' = Append(frame_samples, FrameSamples)
    /\ UNCHANGED <<is_speaking, handoffs, handed_off, dropped, entry_vars,
                   whisper_vars, task_vars, reply_vars, messages, llm_busy, llm_failures, stt_vars>>

\* ---------------------------------------------- handle_audio_track: process_vad
\* the detector emits events only for frames it was fed
VadCanEmit == Len(vad_fed) > 0

\* mutant: START_OF_SPEECH keeps the buffer
StartBuffer_Keep(buf) == buf

\* "speech_frames = []" at START_OF_SPEECH
StartBuffer(buf) == <<>>

\* START_OF_SPEECH: is_speaking = True, the buffer is reset, barge-in
VadStart ==
    /\ LoopFree
    /\ entry_pc = "listening"
    /\ VadCanEmit
    /\ is_speaking' = TRUE
    /\ speech_frames' = StartBuffer(speech_frames)
    /\ replies' = CancelCurrent(replies, current_tts_task)
    /\ since_start' = <<>>
    /\ handoffs' = 0
    /\ dropped' = dropped \cup {speech_frames[i] : i \in DOMAIN speech_frames}
    /\ UNCHANGED <<frame_count, vad_fed, handed_off, frame_samples, next_rid, current_tts_task,
                   entry_vars, whisper_vars, task_vars, messages, llm_busy, llm_failures, stt_vars>>

\* mutant: the buffer is not tested
HandoffCond_SpeakingOnly(speaking, buf) == speaking

\* "if is_speaking and speech_frames:"
HandoffCond(speaking, buf) == speaking /\ buf # <<>>

\* mutant: the buffer is cleared before it is copied
NewUtterance_AfterClear(frames) ==
    [pc |-> "transcribing", frames |-> <<>>, tts |-> 0, pre |-> <<>>, log |-> "none"]

\* the task asyncio.create_task(transcribe_and_respond(frames_to_process, ...)):
\* transcription runs in the executor
NewUtterance(frames) ==
    [pc |-> "transcribing", frames |-> frames, tts |-> 0, pre |-> <<>>, log |-> "none"]

\* END_OF_SPEECH: hand the segment off if there is one; is_speaking = False
VadEnd ==
    /\ LoopFree
    /\ entry_pc = "listening"
    /\ VadCanEmit
    /\ is_speaking' = FALSE
    /\ IF HandoffCond(is_speaking, speech_frames)
       THEN /\ speech_frames' = <<>>
            /\ next_uid' = next_uid + 1
            /\ tasks' = tasks @@ (next_uid + 1 :> NewUtterance(speech_frames))
            /\ handoffs' = handoffs + 1
            /\ handed_off' = Append(handed_off, speech_frames)
       ELSE UNCHANGED <<speech_frames, next_uid, tasks, handoffs, handed_off>>
    /\ UNCHANGED <<frame_count, vad_fed, since_start, dropped, frame_samples, entry_vars,
                   whisper_vars, reply_vars, messages, llm_busy, llm_failures, stt_vars>>

\* ------------------------------------------------------------------ respond
\* respond() up to the LLM request: preempt the reply in flight, append the
\* user turn, truncate; client.messages.create then blocks the event loop
RespondBegin(u, text) ==
    /\ replies' = CancelCurrent(replies, current_tts_task)
    /\ messages' = AppendUser(messages, text)
    /\ tasks' = [tasks EXCEPT ![u].pc = "llm", ![u].pre = messages]
    /\ llm_busy' = u
    /\ UNCHANGED <<next_uid, next_rid, current_tts_task, llm_failures>>

\* the request returns a reply: append the assistant turn, speak() it
LLMSuccess(u) ==
    /\ llm_busy = u
    /\ u \in DOMAIN tasks
    /\ messages' = AppendAssistant(messages, u)
    /\ Speak
    /\ tasks' = [tasks EXCEPT ![u].pc = "speaking", ![u].tts = next_rid + 1,
                              ![u].pre = <<>>]
    /\ llm_busy' = 0
    /\ UNCHANGED <<next_uid, llm_failures, stt_vars, entry_vars, whisper_vars, track_vars>>

\* mutant: the exception of the request leaves respond() and ends the session
LLMFail_EndsSession(u) ==
    /\ llm_busy = u
    /\ u \in DOMAIN tasks
    /\ messages' = Rollback(messages)
    /\ tasks' = Remove(tasks, u)
    /\ llm_busy' = 0
    /\ llm_failures' = llm_failures + 1
    /\ entry_pc' = "returned"
    /\ UNCHANGED sub_vars
    /\ UNCHANGED <<entry_reply, next_uid, reply_vars, stt_vars, whisper_vars, track_vars>>

\* the request raises, or response.content[0].text does: roll back, return
LLMFail(u) ==
    /\ llm_busy = u
    /\ u \in DOMAIN tasks
    /\ messages' = Rollback(messages)
    /\ tasks' = Remove(tasks, u)
    /\ llm_busy' = 0
    /\ llm_failures' = llm_failures + 1
    /\ UNCHANGED <<next_uid, reply_vars, stt_vars, entry_vars, whisper_vars, track_vars>>

\* ---------------------------------------------------- transcribe_and_respond
\* len(np.concatenate(audio_data)): the samples of all frames of the segment
RECURSIVE SegmentSamples(_)
SegmentSamples(frames) ==
    IF frames = <<>> THEN 0
    ELSE frame_samples[Head(frames)] + SegmentSamples(Tail(frames))

\* "ratio = sample_rate / WHISPER_SAMPLE_RATE;
\*  indices = np.arange(0, len(audio_data), ratio).astype(int)": the length
\* of the resampled audio, one sample for every index 0, ratio, 2 ratio, ...
\* below n
Resampled(n) ==
    IF SampleRate = WhisperSampleRate THEN n
    ELSE LET ratio == SampleRate \div WhisperSampleRate
         IN  (n + ratio - 1) \div ratio

\* "duration = len(audio_data) / WHISPER_SAMPLE_RATE;
\*  if duration < MIN_SPEECH_DURATION: return"
TooShort(n) == Resampled(n) * 1000 < MinSpeechMillis * WhisperSampleRate

\* transcribe_audio returns "" before it reaches whisper_model.transcribe
EarlyReturn(frames) ==
    \/ ~whisper_model
    \/ frames = <<>>
    \/ TooShort(SegmentSamples(frames))

\* the text transcribe_audio returns when the backend hears heard in the
\* segment: "" on an early return and on an exception, else the stripped text
TranscribeAudio(frames, heard) ==
    IF EarlyReturn(frames) \/ heard = BackendError THEN <<>> ELSE Strip(heard)

\* mutant: only the empty text is discarded
Discarded_EmptyOnly(text) == text = <<>>

\* "if not text or len(text.strip()) < 2: return"
Discarded(text) == text = <<>> \/ Len(Strip(text)) < MinTextLen

\* run_in_executor(transcribe_audio) returns: discard the text or respond()
TranscribeReturn(u, heard) ==
    /\ LoopFree
    /\ u \in DOMAIN tasks
    /\ tasks[u].pc = "transcribing"
    /\ stt_calls' = IF EarlyReturn(tasks[u].frames) THEN stt_calls ELSE stt_calls + 1
    /\ IF Discarded(TranscribeAudio(tasks[u].frames, heard))
       THEN /\ tasks' = Remove(tasks, u)
            /\ UNCHANGED <<next_uid, reply_vars, messages, llm_busy, llm_failures>>
       ELSE RespondBegin(u, u)
    /\ UNCHANGED <<said, stt_events, entry_vars, whisper_vars, track_vars>>

\* "await current_tts_task" returns in speak(): respond() and the task return
UtteranceFinish(u) ==
    /\ LoopFree
    /\ u \in DOMAIN tasks
    /\ tasks[u].pc = "speaking"
    /\ Done(tasks[u].tts)
    /\ tasks' = Remove(tasks, u)
    /\ UNCHANGED <<next_uid, reply_vars, messages, llm_busy, llm_failures,
                   stt_vars, entry_vars, whisper_vars, track_vars>>

\* ------------------------------------ the streaming-STT variant (SpecStt)
\* entrypoint() of the variant: connect, no local model to load
EntryConnectStt ==
    /\ entry_pc = "start"
    /\ entry_pc' = "connected"
    /\ UNCHANGED sub_vars
    /\ UNCHANGED <<entry_reply, whisper_vars, track_vars, task_vars, reply_vars,
                   messages, llm_busy, llm_failures, stt_vars>>

\* the greeting is done: the track handler starts process_stt and process_vad
EntryListenStt ==
    /\ LoopFree
    /\ entry_pc = "greet_wait"
    /\ Done(entry_reply)
    /\ entry_pc' = "listening"
    /\ entry_reply' = 0
    /\ SubscribeTracks
    /\ UNCHANGED <<whisper_vars, track_vars, task_vars, reply_vars, messages, llm_busy, llm_failures, stt_vars>>

\* the task asyncio.create_task(respond(text, ...)): it has not run yet
NewRespondTask == [pc |-> "created", frames |-> <<>>, tts |-> 0, pre |-> <<>>, log |-> "none"]

\* "text = event.alternatives[0].text.strip(); if not text: continue;
\*  if is_final: ... if len(text) > 2:"
SttForwarded(heard) == Strip(heard) # <<>> /\ Len(Strip(heard)) > SttTextLen

\* process_stt: a final transcript of more than 2 characters spawns respond()
SttFinal(heard) ==
    /\ LoopFree
    /\ entry_pc = "listening"
    /\ stt_events < MaxTurns
    /\ Cardinality(DOMAIN tasks) < MaxLive
    /\ stt_events' = stt_events + 1
    /\ IF SttForwarded(heard)
       THEN /\ next_uid' = next_uid + 1
            /\ tasks' = tasks @@ (next_uid + 1 :> NewRespondTask)
       ELSE UNCHANGED task_vars
    /\ UNCHANGED <<said, stt_calls, entry_vars, whisper_vars, track_vars, reply_vars,
                   messages, llm_busy, llm_failures>>

\* the event loop starts tasks in the order they were created
FirstCreated(u) ==
    /\ u \in DOMAIN tasks
    /\ tasks[u].pc = "created"
    /\ \A v \in DOMAIN tasks : tasks[v].pc = "created" => u <= v

\* first run of a respond() task
RespondStart(u) ==
    /\ LoopFree
    /\ FirstCreated(u)
    /\ RespondBegin(u, u)
    /\ UNCHANGED <<stt_vars, entry_vars, whisper_vars, track_vars>>

\* process_vad of the variant: START_OF_SPEECH only cancels the reply in flight
VadStartStt ==
    /\ LoopFree
    /\ entry_pc = "listening"
    /\ replies' = CancelCurrent(replies, current_tts_task)
    /\ UNCHANGED <<next_rid, current_tts_task, entry_vars, whisper_vars, track_vars,
                   task_vars, messages, llm_busy, llm_failures, stt_vars>>

\* -------------------------------------------------------------------- Spec
TranscribeStep == \E u \in DOMAIN tasks : \E heard \in Transcripts : TranscribeReturn(u, heard)
TranscribeSaidStep == \E u \in DOMAIN tasks : TranscribeReturn(u, said)
SttFinalStep == SttFinal(said)
LLMSuccessStep == \E u \in DOMAIN tasks : LLMSuccess(u)
LLMFailStep == \E u \in DOMAIN tasks : LLMFail(u)
UtteranceFinishStep == \E u \in DOMAIN tasks : UtteranceFinish(u)
RespondStartStep == \E u \in DOMAIN tasks : RespondStart(u)
SpeakStartStep == \E r \in DOMAIN replies : SpeakStart(r)
SpeakChunkStep == \E r \in DOMAIN replies : SpeakChunk(r)
SpeakCompleteStep == \E r \in DOMAIN replies : SpeakComplete(r)
SpeakErrorStep == \E r \in DOMAIN replies : SpeakError(r)
SpeakCancelledStep == \E r \in DOMAIN replies : SpeakCancelled(r)

Next ==
    \/ EntryConnect
    \/ WhisperLoaded
    \/ WhisperSignal
    \/ WhisperFail
    \/ EntryGreet
    \/ EntryGreetDone
    \/ EntryReady
    \/ EntryTimeout
    \/ EntryListen
    \/ EntryReturn
    \/ HandleFrame
    \/ VadStart
    \/ VadEnd
    \/ TranscribeStep
    \/ LLMSuccessStep
    \/ LLMFailStep
    \/ UtteranceFinishStep
    \/ SpeakStartStep
    \/ SpeakChunkStep
    \/ SpeakCompleteStep
    \/ SpeakCancelledStep

Spec == Init /\ [][Next]_vars

NextStt ==
    \/ EntryConnectStt
    \/ EntryGreet
    \/ EntryListenStt
    \/ SttFinalStep
    \/ RespondStartStep
    \/ VadStartStt
    \/ LLMSuccessStep
    \/ LLMFailStep
    \/ UtteranceFinishStep
    \/ SpeakStartStep
    \/ SpeakChunkStep
    \/ SpeakCompleteStep
    \/ SpeakCancelledStep

SpecStt == InitStt /\ [][NextStt]_vars

\* ---------------------------------------------------------------- SpecUtt
\* One utterance of the local-Whisper variant, from its handoff on: the
\* segment, what the backend hears in it and the dialogue turns before it are
\* inputs.
\* the samples 0.5 s of audio have at the source rate
ThresholdSamples == (MinSpeechMillis * SampleRate) \div 1000

\* the frame sizes of the segment: around a quarter of a second, and half a second
FrameSizes == { ThresholdSamples \div 2 - 2, ThresholdSamples \div 2 - 1,
                ThresholdSamples \div 2, ThresholdSamples }

\* the frame sizes of a segment, frame by frame
SegmentSizes == UNION { [1..k -> FrameSizes] : k \in 1..MaxSegFrames }

\* dialogue turns, all successful, before the utterance: none, and enough to
\* fill the history
PriorTurns == { 0, HistoryCap \div 2, HistoryCap \div 2 + 1 }

\* the last k entries of s
LastN(s, k) == SubSeq(s, Len(s) - k + 1, Len(s))

\* the turns of n successful dialogue turns, in the order they were appended
FullLog(n) ==
    [i \in 1..(2 * n) |->
        [role |-> IF i % 2 = 1 THEN "user" ELSE "assistant", content |-> (i + 1) \div 2]]

\* the history n successful turns leave: every turn appends two entries, and
\* the truncation to 20 comes before the second
HistoryAfter(n) ==
    IF 2 * n <= HistoryCap THEN FullLog(n) ELSE LastN(FullLog(n), HistoryCap + 1)

\* after n turns of one frame each and a segment with the frame sizes sizes:
\* the END_OF_SPEECH of utterance n + 1 has just handed the segment off
AfterHandoff(n, sizes) ==
    LET first == n + 2
        last == n + 1 + Len(sizes)
        segment == [i \in 1..Len(sizes) |-> n + 1 + i]
    IN  /\ entry_pc = "listening"
        /\ entry_reply = 0
        /\ whisper_pc = "ready"
        /\ whisper_model = TRUE
        /\ whisper_ready = TRUE
        /\ is_speaking = FALSE
        /\ speech_frames = <<>>
        /\ frame_count = last
        /\ vad_fed = [i \in 1..last |-> i]
        /\ frame_samples = [i \in 1..last |->
                                IF i < first THEN FrameSamples ELSE sizes[i - n - 1]]
        /\ tasks = (n + 1 :> NewUtterance(segment))
        /\ next_uid = n + 1
        /\ replies = <<>>
        /\ next_rid = n + 2
        /\ current_tts_task = n + 2
        /\ messages = HistoryAfter(n)
        /\ llm_busy = 0
        /\ since_start = segment
        /\ handoffs = 1
        /\ handed_off = [j \in 1..(n + 1) |-> IF j <= n THEN <<j + 1>> ELSE segment]
        /\ dropped = {}
        /\ llm_failures = 0
        /\ stt_calls = n
        /\ stt_events = 0
        /\ published = MicOnly
        /\ already_handled = MicOnly
        /\ handlers = [t \in Tracks |-> IF t \in MicOnly THEN 1 ELSE 0]
        /\ track_events = 0

InitUtt ==
    /\ said \in Transcripts
    /\ \E n \in PriorTurns : \E sizes \in SegmentSizes : AfterHandoff(n, sizes)

NextUtt ==
    \/ TranscribeSaidStep
    \/ VadStart
    \/ LLMSuccessStep
    \/ LLMFailStep
    \/ UtteranceFinishStep
    \/ SpeakStartStep
    \/ SpeakChunkStep
    \/ SpeakCompleteStep
    \/ SpeakErrorStep
    \/ SpeakCancelledStep

SpecUtt == InitUtt /\ [][NextUtt]_vars

\* ================================================================= claims
\* the live reply tasks whose cancellation has not been requested
Forwarding == {r \in DOMAIN replies : ~replies[r].cancel}

\* reply r forwards a chunk to the sink in this step
ForwardsChunk(r) ==
    /\ r \in DOMAIN replies
    /\ r \in DOMAIN replies'
    /\ replies'[r].sent # replies[r].sent

\* C1: at most one reply task forwards chunks to the sink: the only live reply
\* without a cancellation request is current_tts_task; when speak() creates a
\* reply task the previous one is done or has cancellation requested; and a
\* reply that is not the newest one forwards no chunk.
C1_SingleActiveReply ==
    /\ [](/\ Cardinality(Forwarding) <= 1
          /\ \A r \in Forwarding : r = current_tts_task)
    /\ [][/\ next_rid' # next_rid =>
                \/ current_tts_task = 0
                \/ Done(current_tts_task)
                \/ replies[current_tts_task].cancel
          /\ \A r \in DOMAIN replies : r # next_rid => ~ForwardsChunk(r)]_vars

\* C1 witness: a new reply is streaming while the reply it superseded, which
\* had forwarded a chunk, is still alive with its cancellation requested
C1_Witness ==
    \E old \in DOMAIN replies :
        /\ old # current_tts_task
        /\ replies[old].cancel
        /\ replies[old].sent > 0
        /\ current_tts_task \in DOMAIN replies
        /\ replies[current_tts_task].sent > 0

\* C2: barge-in: a StartOfSpeech processed while the current reply task exists
\* and is not done requests its cancellation in the same step, and a reply whose
\* cancellation is requested forwards no further chunk and stays cancelled.
C2_BargeIn ==
    [][/\ (VadStart /\ current_tts_task \in DOMAIN replies)
            => /\ current_tts_task \in DOMAIN replies'
               /\ replies'[current_tts_task].cancel
       /\ \A r \in DOMAIN replies :
            replies[r].cancel =>
                /\ ~ForwardsChunk(r)
                /\ r \in DOMAIN replies' => replies'[r].cancel]_vars

\* C2 witness: the user speaks, and the reply that was mid-stream (one chunk
\* forwarded, more to come) has its cancellation requested
C2_Witness ==
    /\ is_speaking
    /\ current_tts_task \in DOMAIN replies
    /\ replies[current_tts_task].cancel
    /\ replies[current_tts_task].state = "streaming"
    /\ replies[current_tts_task].sent > 0
    /\ replies[current_tts_task].sent < MaxChunks

\* C3: an EndOfSpeech processed while Speaking with a non-empty buffer spawns
\* exactly one utterance task holding the buffer, sets Idle and empties the
\* buffer; any other EndOfSpeech spawns none; and between two StartOfSpeech
\* events there is at most one handoff.
C3_ExactlyOnceHandoff ==
    /\ [][VadEnd =>
            IF is_speaking /\ speech_frames # <<>>
            THEN /\ DOMAIN tasks' = DOMAIN tasks \cup {next_uid + 1}
                 /\ next_uid + 1 \notin DOMAIN tasks
                 /\ next_uid' = next_uid + 1
                 /\ ~is_speaking'
                 /\ speech_frames' = <<>>
            ELSE /\ tasks' = tasks
                 /\ next_uid' = next_uid]_vars
    /\ [](handoffs <= 1)

\* C3 witness: a segment was handed off in this speech turn, and a frame
\* arrived after the handoff
C3_Witness ==
    /\ handoffs = 1
    /\ ~is_speaking
    /\ speech_frames = <<>>
    /\ Len(since_start) > Len(Last(handed_off))

\* C4: a StartOfSpeech sets Speaking and empties the buffer whatever the state
\* was, and the frames it removes from the buffer are never handed off.
C4_StartResets ==
    /\ [][VadStart => (is_speaking' /\ speech_frames' = <<>>)]_vars
    /\ [](\A k \in DOMAIN handed_off : \A i \in DOMAIN handed_off[k] :
             handed_off[k][i] \notin dropped)

\* C4 witness: two StartOfSpeech in a row dropped a buffered frame, and a
\* later segment was handed off
C4_Witness ==
    /\ dropped # {}
    /\ handed_off # <<>>
    /\ \E f \in dropped : Last(handed_off)[1] > f

\* C5: every frame goes to the detector, it is appended to the buffer iff
\* Speaking, and after a handoff the buffer stays empty until the next
\* StartOfSpeech.
C5_FrameAccumulator ==
    /\ [][HandleFrame =>
            /\ vad_fed' = Append(vad_fed, frame_count')
            /\ speech_frames' = IF is_speaking
                                THEN Append(speech_frames, frame_count')
                                ELSE speech_frames]_vars
    /\ [](/\ vad_fed = [i \in 1..frame_count |-> i]
          /\ handoffs > 0 => speech_frames = <<>>)

\* C5 witness: after a handoff, two frames were handled and none was buffered
C5_Witness ==
    /\ handoffs > 0
    /\ Len(since_start) >= Len(Last(handed_off)) + 2
    /\ speech_frames = <<>>

\* a sequence of frames in strictly increasing (arrival) order
Ascending(seg) == \A i, j \in DOMAIN seg : i < j => seg[i] < seg[j]

\* C6: the segment handed off is the sequence of frames handled since the last
\* StartOfSpeech, in arrival order; it does not change afterwards; no frame is
\* in two segments.
C6_SegmentContent ==
    /\ [][/\ handed_off' # handed_off =>
                /\ since_start # <<>>
                /\ handed_off' = Append(handed_off, since_start)
                /\ tasks'[next_uid'].frames = since_start
          /\ \A u \in DOMAIN tasks :
                u \in DOMAIN tasks' => tasks'[u].frames = tasks[u].frames]_vars
    /\ [](/\ \A k \in DOMAIN handed_off : Ascending(handed_off[k])
          /\ \A k, m \in DOMAIN handed_off : \A i \in DOMAIN handed_off[k] :
                \A j \in DOMAIN handed_off[m] :
                    handed_off[k][i] = handed_off[m][j] => (k = m /\ i = j))

\* C6 witness: two segments were handed off, the first of two frames, while
\* the task of the first is still alive
C6_Witness ==
    /\ Len(handed_off) = 2
    /\ Len(handed_off[1]) = 2
    /\ 1 \in DOMAIN tasks
    /\ 2 \in DOMAIN tasks

\* C7: the ConversationHistory never has more than 20 entries.
C7_HistoryAtMostCap == Len(messages) <= HistoryCap

\* n dialogue turns were started, every LLM request succeeded and returned
AllTurnsSucceeded(n) ==
    /\ next_uid = n
    /\ llm_failures = 0
    /\ llm_busy = 0
    /\ \A u \in DOMAIN tasks : tasks[u].pc = "speaking"

\* C8: after N > 10 successful turns the history is exactly the 20 entries
\* appended last, in their order.
C8_KeepsLastCapEntries ==
    (2 * next_uid > HistoryCap /\ AllTurnsSucceeded(next_uid))
        => messages = LastN(FullLog(next_uid), HistoryCap)

\* C9: a failed LLM request leaves the history as it was before the call.
C9_FailureRestoresHistory ==
    [][LLMFailStep => messages' = tasks[llm_busy].pre]_vars

\* C10: when the LLM request fails, the user turn of the call is removed from
\* the end of the history and is no longer in it, nothing else is appended and
\* no reply task is created.
C10_FailureDropsUserTurn ==
    [][LLMFailStep =>
        /\ Last(messages) = [role |-> "user", content |-> llm_busy]
        /\ messages' = Front(messages)
        /\ \A i \in DOMAIN messages' :
              messages'[i] # [role |-> "user", content |-> llm_busy]
        /\ replies' = replies
        /\ next_rid' = next_rid
        /\ current_tts_task' = current_tts_task]_vars

\* C10 witness: an LLM request failed on a history that was at the cap
C10_Witness ==
    /\ llm_failures > 0
    /\ llm_busy = 0
    /\ Len(messages) = HistoryCap - 1

\* the user turn and the assistant turn of utterance u
UserTurn(u) == [role |-> "user", content |-> u]
AssistantTurn(u) == [role |-> "assistant", content |-> u]

\* turn t is an entry of the history
InHistory(t) == \E i \in DOMAIN messages : messages[i] = t

\* C11: when the LLM request of a turn succeeds, the history ends with the
\* user turn of that turn followed by its assistant turn; the reply task is
\* created with the assistant turn already appended; and a history that had at
\* most 18 entries before the turn has grown by exactly 2.
C11_SuccessAppendsPair ==
    [][LLMSuccessStep =>
            /\ Len(messages') >= 2
            /\ messages'[Len(messages') - 1] = UserTurn(llm_busy)
            /\ Last(messages') = AssistantTurn(llm_busy)
            /\ next_rid' = next_rid + 1
            /\ next_rid' \in DOMAIN replies'
            /\ replies'[next_rid'].state = "created"
            /\ tasks'[llm_busy].tts = next_rid'
            /\ Len(tasks[llm_busy].pre) <= HistoryCap - 2
                  => Len(messages') = Len(tasks[llm_busy].pre) + 2]_vars

\* C11 witness: the reply task of a turn has just been created, and the
\* history, which had 18 entries before the turn, has 20 and ends with the
\* pair of the turn.
C11_Witness ==
    \E u \in DOMAIN tasks :
        /\ tasks[u].pc = "speaking"
        /\ tasks[u].tts \in DOMAIN replies
        /\ replies[tasks[u].tts].state = "created"
        /\ Len(messages) = HistoryCap
        /\ Last(messages) = AssistantTurn(u)
        /\ messages[Len(messages) - 1] = UserTurn(u)

\* the smaller of two numbers
Min(a, b) == IF a < b THEN a ELSE b

\* C12: whenever the LLM backend is invoked, the turn list it is given has at
\* most 20 entries, ends with the user turn of the current call, and is the
\* most recent suffix of the history with that turn appended, in the order of
\* the history.
C12_LLMSeesRecentSuffix ==
    llm_busy # 0 =>
        LET full == Append(tasks[llm_busy].pre, UserTurn(llm_busy))
        IN  /\ Len(messages) <= HistoryCap
            /\ Last(messages) = UserTurn(llm_busy)
            /\ messages = LastN(full, Min(Len(full), HistoryCap))

\* C12 witness: the LLM backend is invoked on a history that had 20 entries
\* before the call, so that the truncation dropped the oldest.
C12_Witness ==
    /\ llm_busy # 0
    /\ Len(tasks[llm_busy].pre) = HistoryCap
    /\ Len(messages) = HistoryCap
    /\ messages[1] = tasks[llm_busy].pre[2]

\* the transcription of utterance u returns in this step
TranscriptionReturns(u) ==
    /\ u \in DOMAIN tasks
    /\ tasks[u].pc = "transcribing"
    /\ u \notin DOMAIN tasks' \/ tasks'[u].pc # "transcribing"

\* utterance u ends in this step with nothing done: the transcription
\* backend is not invoked, the history is not touched, no LLM request is made
\* and no reply task is created
DroppedUnheard(u) ==
    /\ stt_calls' = stt_calls
    /\ u \notin DOMAIN tasks'
    /\ messages' = messages
    /\ llm_busy' = 0
    /\ llm_failures' = llm_failures
    /\ UNCHANGED reply_vars

\* n samples at the 48 kHz source rate last less than 0.5 s
BelowMinDuration(n) == n * 1000 < MinSpeechMillis * SampleRate

\* C13: a handed-off segment whose duration, its samples divided by the
\* 48 kHz source rate, is below 0.5 s gets no transcription: the backend is
\* not invoked, and no LLM request or reply follows.
C13_ShortSegmentDropped ==
    [][\A u \in DOMAIN tasks :
          (TranscriptionReturns(u) /\ BelowMinDuration(SegmentSamples(tasks[u].frames)))
              => DroppedUnheard(u)]_vars

\* the transcript said has at least 2 characters after trimming
LongEnough == Len(Strip(said)) >= MinTextLen

\* the local-Whisper variant: the backend returns the transcript said for
\* utterance u in this step, and the utterance goes to respond() exactly if the
\* transcript is long enough; if not the history is not touched
WhisperForwardsIffLongEnough ==
    \A u \in DOMAIN tasks :
        (TranscriptionReturns(u) /\ ~EarlyReturn(tasks[u].frames) /\ said # BackendError)
            => /\ llm_busy' = u <=> LongEnough
               /\ ~LongEnough => messages' = messages

\* the streaming-STT variant: process_stt handles the final transcript said in
\* this step, and a respond() task is created exactly if the transcript is
\* long enough; if not the history is not touched
SttForwardsIffLongEnough ==
    stt_events' = stt_events + 1
        => /\ next_uid' = next_uid + 1 <=> LongEnough
           /\ ~LongEnough => messages' = messages

\* C14: in every variant a transcript is forwarded to the dialogue manager if
\* and only if it has at least 2 characters after trimming; a shorter one is
\* discarded and the history is not touched.
C14_ForwardedIffTwoChars ==
    [][WhisperForwardsIffLongEnough /\ SttForwardsIffLongEnough]_vars

\* the cancellation of reply r is requested in this step
CancelRequested(r) ==
    /\ r \in DOMAIN replies
    /\ ~replies[r].cancel
    /\ r \in DOMAIN replies'
    /\ replies'[r].cancel

\* the utterance tasks whose reply is r
Owners(r) == {u \in DOMAIN tasks : tasks[u].tts = r}

\* the failure branch of respond() is not taken in this step
NoFailurePath == llm_failures' = llm_failures

\* the reply utterance u awaits has a cancellation request
ReplyCancelled(u) ==
    /\ tasks[u].pc = "speaking"
    /\ tasks[u].tts \in DOMAIN replies
    /\ replies[tasks[u].tts].cancel

\* C15: cancelling a reply in flight, by a barge-in or by a new turn, removes
\* nothing from the history: when the cancellation is requested and when it is
\* delivered, the user turn and the assistant turn of the cancelled reply stay
\* and no entry is rolled back; the turn that awaits the reply then returns on
\* the normal path, not on the failure path.
C15_CancelKeepsHistory ==
    /\ [][\A r \in DOMAIN replies : CancelRequested(r) =>
            /\ NoFailurePath
            /\ SubSeq(messages', 1, Len(messages)) = messages
            /\ llm_busy' = 0 => messages' = messages]_vars
    /\ [][SpeakCancelledStep => (messages' = messages /\ NoFailurePath)]_vars
    /\ [](\A u \in DOMAIN tasks : ReplyCancelled(u) =>
            (InHistory(UserTurn(u)) /\ InHistory(AssistantTurn(u))))
    /\ [][\A u \in DOMAIN tasks :
            (tasks[u].pc = "speaking" /\ u \notin DOMAIN tasks')
                => (messages' = messages /\ NoFailurePath)]_vars

\* C15 witness: the reply of one turn was cancelled by the next turn, which is
\* speaking its own reply; the history holds both turns of the cancelled
\* reply, and no failure was ever handled.
C15_Witness ==
    \E u, v \in DOMAIN tasks :
        /\ u < v
        /\ ReplyCancelled(u)
        /\ replies[tasks[u].tts].sent > 0
        /\ tasks[v].pc = "speaking"
        /\ tasks[v].tts \in DOMAIN replies
        /\ ~replies[tasks[v].tts].cancel
        /\ InHistory(UserTurn(u))
        /\ InHistory(AssistantTurn(u))
        /\ llm_failures = 0

\* the VAD-event loop can process a StartOfSpeech and an EndOfSpeech, and the
\* frame loop can take the next frame the transport has for it
LoopsEnabled ==
    /\ ENABLED VadStart
    /\ ENABLED VadEnd
    /\ frame_count < MaxFrames => ENABLED HandleFrame

\* C16: the handoff does not block: as long as the transcription of a
\* handed-off utterance is outstanding, the VAD-event loop and the frame loop
\* stay enabled, so that a StartOfSpeech, frames and an EndOfSpeech, a second
\* handoff included, are processed before the transcription returns.
C16_HandoffNonBlocking ==
    (\E u \in DOMAIN tasks : tasks[u].pc = "transcribing") => LoopsEnabled

\* C17: waiting for the LLM backend does not block the other loops: a
\* StartOfSpeech that arrives during the LLM request is processed before the
\* request returns.
C17_LLMWaitNonBlocking ==
    llm_busy # 0 => ENABLED VadStart

\* the reply of utterance u is started in this step
ReplyStarted(u) ==
    /\ u \in DOMAIN tasks
    /\ tasks[u].pc = "llm"
    /\ u \in DOMAIN tasks'
    /\ tasks'[u].pc = "speaking"

\* C18: once a later utterance has been handed off and is pending (being
\* transcribed, answered or spoken), no reply to an earlier utterance is
\* started, and the turn of an earlier utterance never cancels the reply of a
\* later one.
C18_NoStaleReply ==
    /\ [][\A u \in DOMAIN tasks : ReplyStarted(u) =>
              \A v \in DOMAIN tasks : v <= u]_vars
    /\ [][\A r \in DOMAIN replies : (CancelRequested(r) /\ llm_busy' # 0) =>
              \A v \in Owners(r) : v < llm_busy']_vars

\* the utterance processor has no transcript to forward for utterance u: the
\* segment is too short for it, the call of the backend fails, or the
\* transcript is empty or shorter than 2 characters
NothingToForward(u) ==
    \/ EarlyReturn(tasks[u].frames)
    \/ said = BackendError
    \/ ~LongEnough

\* utterance u ends in this step and leaves the dialogue as it is
DroppedSilently(u) ==
    /\ u \notin DOMAIN tasks'
    /\ messages' = messages
    /\ llm_busy' = 0
    /\ llm_failures' = llm_failures
    /\ UNCHANGED reply_vars

\* a discarded utterance and a failed call of the transcription backend leave
\* the history unchanged, make no LLM request and create no reply task
DiscardLeavesDialogue ==
    \A u \in DOMAIN tasks :
        (TranscriptionReturns(u) /\ NothingToForward(u)) => DroppedSilently(u)

\* every entry of the history is an entry of the history after the step
KeepsAllEntries ==
    \A i \in DOMAIN messages : \E j \in DOMAIN messages' : messages'[j] = messages[i]

\* the step appends one entry and truncates: the history after the step is
\* the newest 20 entries of the history with the entry appended
TruncatedAppend ==
    /\ Len(messages') = HistoryCap
    /\ Len(messages) >= HistoryCap
    /\ Front(messages') = LastN(messages, HistoryCap - 1)

\* C19: a discarded utterance (too short, empty transcript) and a failed call
\* of the transcription backend leave the history unchanged, make no LLM
\* request and create no reply task; only an LLM failure ever removes an entry
\* from the history.
C19_OnlyLLMFailureRemoves ==
    [][/\ DiscardLeavesDialogue
       /\ ~KeepsAllEntries => llm_failures' = llm_failures + 1]_vars

\* C19 amended: a discarded utterance (too short, empty transcript) and a
\* failed call of the transcription backend leave the history unchanged, make
\* no LLM request and create no reply task; apart from the truncation to the
\* newest 20 entries when a user turn is appended, only an LLM failure ever
\* removes an entry from the history.
C19_OnlyFailureOrTruncationRemoves ==
    [][/\ DiscardLeavesDialogue
       /\ ~KeepsAllEntries => (TruncatedAppend \/ llm_failures' = llm_failures + 1)]_vars

\* C19 witness: the call of the transcription backend for an utterance has
\* failed; the utterance is gone, the history still has the 21 entries it had,
\* no reply task was created for it and no LLM request failed.
C19_Witness ==
    /\ tasks = <<>>
    /\ said = BackendError
    /\ stt_calls = next_uid
    /\ messages = HistoryAfter(next_uid - 1)
    /\ Len(messages) = HistoryCap + 1
    /\ next_rid = next_uid + 1
    /\ llm_failures = 0

\* the TTS stream of the reply of utterance u fails in this step
TtsFails(u) ==
    /\ u \in DOMAIN tasks
    /\ u \in DOMAIN tasks'
    /\ tasks[u].log # "errore"
    /\ tasks'[u].log = "errore"

\* C20: when the TTS backend fails in the stream of a reply, no further chunk
\* of that reply is forwarded to the sink, the reply task finishes, the reply
\* is not retried, and the history keeps the user turn and the assistant turn
\* of that reply: nothing is rolled back.
C20_TtsFailureKeepsTurn ==
    /\ [][\A u \in DOMAIN tasks : TtsFails(u) =>
            /\ tasks[u].tts \notin DOMAIN replies'
            /\ next_rid' = next_rid
            /\ messages' = messages
            /\ NoFailurePath]_vars
    /\ [](\A u \in DOMAIN tasks : tasks[u].log = "errore" =>
            /\ Done(tasks[u].tts)
            /\ tasks[u].pc = "speaking"
            /\ InHistory(UserTurn(u))
            /\ InHistory(AssistantTurn(u)))
    /\ [][\A u \in DOMAIN tasks :
            (tasks[u].log = "errore" /\ u \notin DOMAIN tasks') =>
                /\ next_rid' = next_rid
                /\ messages' = messages
                /\ NoFailurePath]_vars

\* C20 witness: the TTS stream of the reply of a turn has failed; the reply
\* task is done, no other reply was created, and the history ends with the
\* user turn and the assistant turn of that reply.
C20_Witness ==
    \E u \in DOMAIN tasks :
        /\ tasks[u].log = "errore"
        /\ Done(tasks[u].tts)
        /\ next_rid = tasks[u].tts
        /\ Len(messages) >= 2
        /\ messages[Len(messages) - 1] = UserTurn(u)
        /\ Last(messages) = AssistantTurn(u)
        /\ llm_failures = 0

\* ------------------------------------------------ failing backends (SpecFail)
\* what the transcription backend does with every segment of a session: it
\* hears a forwardable text, or it raises
FailSaid == { <<"o", "k">>, BackendError }

InitFail == InitState /\ said \in FailSaid /\ published = MicOnly

\* the session of Spec with the TTS failure branch of _speak as well
NextFail ==
    \/ EntryConnect
    \/ WhisperLoaded
    \/ WhisperSignal
    \/ WhisperFail
    \/ EntryGreet
    \/ EntryGreetDone
    \/ EntryReady
    \/ EntryTimeout
    \/ EntryListen
    \/ EntryReturn
    \/ HandleFrame
    \/ VadStart
    \/ VadEnd
    \/ TranscribeSaidStep
    \/ LLMSuccessStep
    \/ LLMFailStep
    \/ UtteranceFinishStep
    \/ SpeakStartStep
    \/ SpeakChunkStep
    \/ SpeakCompleteStep
    \/ SpeakErrorStep
    \/ SpeakCancelledStep

SpecFail == InitFail /\ [][NextFail]_vars

\* the transcription backend raises in this step
SttFails ==
    \E u \in DOMAIN tasks :
        /\ TranscriptionReturns(u)
        /\ stt_calls' = stt_calls + 1
        /\ said = BackendError

\* a backend fails in this step: transcription, LLM or TTS
BackendFails ==
    \/ SttFails
    \/ llm_failures' = llm_failures + 1
    \/ \E u \in DOMAIN tasks : TtsFails(u)

\* a backend has failed in this session
HasFailed ==
    \/ said = BackendError /\ stt_calls > 0
    \/ llm_failures > 0
    \/ \E u \in DOMAIN tasks : tasks[u].log = "errore"

\* C21: a failure of the transcription, LLM or TTS backend leaves the track
\* handler listening with the event loop free; a listening handler never stops
\* listening; whenever the handler listens, has been fed a frame and the event
\* loop is free, the VAD-event loop and the frame loop are enabled; and an
\* EndOfSpeech processed after a failure while Speaking with a non-empty buffer
\* still hands the segment off to a new utterance task.
C21_FailureKeepsLoops ==
    /\ [][BackendFails => (entry_pc' = "listening" /\ llm_busy' = 0)]_vars
    /\ [][entry_pc = "listening" => entry_pc' = "listening"]_vars
    /\ [](entry_pc = "listening" /\ VadCanEmit /\ LoopFree => LoopsEnabled)
    /\ [][(HasFailed /\ VadEnd /\ HandoffCond(is_speaking, speech_frames)) =>
            /\ next_uid' = next_uid + 1
            /\ next_uid' \in DOMAIN tasks'
            /\ tasks'[next_uid'].pc = "transcribing"
            /\ tasks'[next_uid'].frames = speech_frames]_vars

\* C21 witness: the LLM request of the first utterance failed and its user
\* turn was rolled back; the second utterance was handed off, transcribed and
\* answered, and its reply is being streamed
C21_Witness ==
    /\ llm_failures = 1
    /\ next_uid = 2
    /\ DOMAIN tasks = {2}
    /\ tasks[2].pc = "speaking"
    /\ messages = <<UserTurn(2), AssistantTurn(2)>>
    /\ tasks[2].tts \in DOMAIN replies
    /\ replies[tasks[2].tts].sent > 0

\* the track handler, its frame loop or its VAD-event loop has run
HandlerStarted ==
    \/ entry_pc = "listening"
    \/ frame_count > 0
    \/ vad_fed # <<>>
    \/ is_speaking
    \/ next_uid > 0

\* C22: before the local model has signalled ready no track handler, frame
\* loop or VAD-event loop has run and no utterance has been handed off; the
\* ready signal implies that the model is loaded; and whenever a transcription
\* is in progress or the backend has been invoked, the model is loaded.
C22_NoTranscriptionBeforeReady ==
    /\ HandlerStarted => whisper_ready
    /\ whisper_ready => whisper_model
    /\ \A u \in DOMAIN tasks : tasks[u].pc = "transcribing" => whisper_model
    /\ stt_calls > 0 => whisper_model

\* C22 witness: the model has signalled ready, the handler listens and the
\* transcription of a handed-off segment is in progress
C22_Witness ==
    /\ whisper_ready
    /\ whisper_model
    /\ entry_pc = "listening"
    /\ \E u \in DOMAIN tasks : tasks[u].pc = "transcribing" /\ tasks[u].frames # <<>>

\* ------------------------------------------------ session start (SpecStart)
\* the event loop runs every task that is ready: the entrypoint goes on after
\* each await that has returned, the reply tasks stream to their end, the
\* load task sets whisper_ready once the executor has returned, and
\* wait_for(whisper_ready.wait(), timeout) returns or raises TimeoutError.
\* Nothing is assumed about the load in the executor or about the user.
StartFairness ==
    /\ WF_vars(EntryConnect)
    /\ WF_vars(EntryGreet)
    /\ WF_vars(EntryGreetDone)
    /\ WF_vars(EntryReady \/ EntryTimeout)
    /\ WF_vars(EntryListen)
    /\ WF_vars(EntryReturn)
    /\ WF_vars(WhisperSignal)
    /\ WF_vars(SpeakStartStep)
    /\ WF_vars(SpeakChunkStep)
    /\ WF_vars(SpeakCompleteStep)

\* the start of a session: entrypoint, load task and the reply tasks of the
\* greeting and the notices, up to the return or to the track handler, whose
\* frame loop and VAD-event loop then run
NextStart ==
    \/ EntryConnect
    \/ WhisperLoaded
    \/ WhisperSignal
    \/ WhisperFail
    \/ EntryGreet
    \/ EntryGreetDone
    \/ EntryReady
    \/ EntryTimeout
    \/ EntryListen
    \/ EntryReturn
    \/ SpeakStartStep
    \/ SpeakChunkStep
    \/ SpeakCompleteStep
    \/ HandleFrame
    \/ VadStart
    \/ VadEnd

SpecStart == Init /\ [][NextStart]_vars /\ StartFairness

\* the ready notice has been passed to speak()
ReadyNotice == entry_pc \in {"ready_wait", "listening"}

\* the problem notice has been passed to speak()
ProblemNotice == entry_pc \in {"problem_wait", "returned"}

\* C23: once the greeting has been passed to speak(), the ready notice or the
\* problem notice is eventually spoken to its end: the session ends up
\* listening after the ready notice, or returned after the problem notice;
\* when the load of the model fails, it is the problem notice and the return;
\* the ready notice is spoken only after the model has signalled ready; a
\* notice once spoken stays the only one; and a session that has returned has
\* started no track handler.
C23_StartNeverHangs ==
    /\ (entry_pc = "greet_wait") ~> (ReadyNotice \/ ProblemNotice)
    /\ ReadyNotice ~> (entry_pc = "listening")
    /\ ProblemNotice ~> (entry_pc = "returned")
    /\ (whisper_pc = "failed") ~> (entry_pc = "returned")
    /\ [](ReadyNotice => whisper_ready)
    /\ [][ReadyNotice => ReadyNotice']_vars
    /\ [][ProblemNotice => ProblemNotice']_vars
    /\ [](ProblemNotice => ~HandlerStarted)

\* C23 witness: the load of the model failed, the wait expired, the problem
\* notice was spoken to its end and the session has returned
C23_Witness ==
    /\ whisper_pc = "failed"
    /\ ~whisper_ready
    /\ entry_pc = "returned"
    /\ replies = <<>>
    /\ next_rid = 2

\* C24: an EndOfSpeech processed while the segment buffer is empty, or while
\* SpeechState is Idle, sets SpeechState to Idle, spawns no utterance task and
\* leaves the buffer, the history and the reply tasks as they are.
C24_EmptyEndOfSpeech ==
    [][(VadEnd /\ (speech_frames = <<>> \/ ~is_speaking)) =>
          /\ ~is_speaking'
          /\ tasks' = tasks
          /\ next_uid' = next_uid
          /\ handed_off' = handed_off
          /\ speech_frames' = speech_frames
          /\ messages' = messages
          /\ replies' = replies
          /\ current_tts_task' = current_tts_task]_vars

\* C24 witness: no frame has arrived since the last StartOfSpeech, whose
\* EndOfSpeech has been processed with the buffer empty, while a turn is in
\* the history and its reply is being streamed
C24_Witness ==
    /\ entry_pc = "listening"
    /\ frame_count > 0
    /\ since_start = <<>>
    /\ ~is_speaking
    /\ handoffs = 0
    /\ messages # <<>>
    /\ current_tts_task \in DOMAIN replies
    /\ replies[current_tts_task].state = "streaming"

\* the turns of the history are in the order in which their utterances were
\* handed off
HistoryInHandoffOrder ==
    \A i, j \in DOMAIN messages : i < j => messages[i].content <= messages[j].content

\* of two utterances being answered, the reply last passed to speak(), which
\* is the one that is not cancelled by the other, is that of the later one
LaterReplyWins ==
    \A u, v \in DOMAIN tasks :
        (u < v /\ tasks[u].pc = "speaking" /\ tasks[v].pc = "speaking") =>
            tasks[u].tts < tasks[v].tts

\* C25: the order in which the transcriptions of overlapping utterances
\* complete has no effect: the history holds the turns in the order of the
\* handoffs, and the reply that is spoken in the end is that of the utterance
\* handed off last, as when the transcriptions complete in the order of the
\* handoffs.
C25_CompletionOrderInvisible == HistoryInHandoffOrder /\ LaterReplyWins

\* no two adjacent entries of the history have the same role
Alternating(h) == \A i \in 1..(Len(h) - 1) : h[i].role # h[i + 1].role

\* C26: every step taken while the LLM request of a turn is outstanding is the
\* end of that request: it appends the assistant turn of the same utterance,
\* or it removes the last entry, which is the user turn of the same utterance;
\* the history ends with that user turn for as long as the request is
\* outstanding; and whenever no request is outstanding, which is whenever
\* another task can run, no two adjacent entries of the history have the same
\* role.
C26_TurnAtomic ==
    /\ [][llm_busy # 0 =>
            /\ llm_busy' = 0
            /\ Last(messages) = UserTurn(llm_busy)
            /\ \/ messages' = Append(messages, AssistantTurn(llm_busy))
               \/ messages' = Front(messages)]_vars
    /\ [](llm_busy # 0 => messages # <<>> /\ Last(messages) = UserTurn(llm_busy))
    /\ [](llm_busy = 0 => Alternating(messages))

\* C26 witness: an earlier LLM request has failed and its user turn is gone,
\* a later turn is in the history, the request of a further turn is
\* outstanding, and another utterance task and its reply task are waiting for
\* the event loop
C26_Witness ==
    /\ llm_busy # 0
    /\ llm_failures > 0
    /\ Len(messages) = 3
    /\ replies # <<>>
    /\ \E u \in DOMAIN tasks : u # llm_busy /\ tasks[u].pc = "speaking"

\* ---------------------------------------------- long speech turns (SpecLong)
\* the frames of FrameSamples samples that hold MAX_SPEECH_DURATION of audio
MaxSpeechFrames == (MaxSpeechMillis * SampleRate) \div (1000 * FrameSamples)

\* frames the user has been speaking for: just below, at and above the maximum
LongTurns == { MaxSpeechFrames - 1, MaxSpeechFrames, MaxSpeechFrames + 1 }

\* the track handler in the middle of a speech turn: the session is listening,
\* START_OF_SPEECH was processed after the first frame, and the frame loop has
\* handled k more frames since, each of them appended to the buffer
WhileSpeaking(k) ==
    LET segment == [i \in 1..k |-> i + 1]
    IN  /\ entry_pc = "listening"
        /\ entry_reply = 0
        /\ whisper_pc = "ready"
        /\ whisper_model = TRUE
        /\ whisper_ready = TRUE
        /\ is_speaking = TRUE
        /\ speech_frames = segment
        /\ frame_count = k + 1
        /\ vad_fed = [i \in 1..(k + 1) |-> i]
        /\ frame_samples = [i \in 1..(k + 1) |-> FrameSamples]
        /\ tasks = <<>>
        /\ next_uid = 0
        /\ replies = <<>>
        /\ next_rid = 2
        /\ current_tts_task = 2
        /\ messages = <<>>
        /\ llm_busy = 0
        /\ since_start = segment
        /\ handoffs = 0
        /\ handed_off = <<>>
        /\ dropped = {}
        /\ llm_failures = 0
        /\ stt_calls = 0
        /\ stt_events = 0
        /\ published = MicOnly
        /\ already_handled = MicOnly
        /\ handlers = [t \in Tracks |-> IF t \in MicOnly THEN 1 ELSE 0]
        /\ track_events = 0

InitLong ==
    /\ said \in Transcripts
    /\ \E k \in LongTurns : WhileSpeaking(k)

\* the end of the speech turn and the processing of its utterance
NextLong ==
    \/ VadStart
    \/ VadEnd
    \/ TranscribeSaidStep
    \/ LLMSuccessStep
    \/ LLMFailStep
    \/ UtteranceFinishStep
    \/ SpeakStartStep
    \/ SpeakChunkStep
    \/ SpeakCompleteStep
    \/ SpeakCancelledStep

SpecLong == InitLong /\ [][NextLong]_vars

\* the audio of a sequence of frames lasts no longer than MAX_SPEECH_DURATION
WithinMaxDuration(frames) ==
    SegmentSamples(frames) * 1000 <= MaxSpeechMillis * SampleRate

\* C27: no segment handed to the utterance processor, as a handoff and as the
\* frames of an utterance task, holds more than MAX_SPEECH_DURATION of audio.
C27_SegmentBounded ==
    /\ \A j \in DOMAIN handed_off : WithinMaxDuration(handed_off[j])
    /\ \A u \in DOMAIN tasks : WithinMaxDuration(tasks[u].frames)

\* C28: whenever an LLM request is outstanding, the turn list it was passed,
\* which is the history, begins with a user turn.
C28_RequestBeginsWithUser ==
    llm_busy # 0 => (messages # <<>> /\ messages[1].role = "user")

\* C29: while SpeechState is Speaking no reply task is created and no reply
\* forwards a chunk to the sink.
C29_NoReplyOverSpeech ==
    [][is_speaking =>
          /\ is_speaking' => next_rid' = next_rid
          /\ \A r \in DOMAIN replies : ~ForwardsChunk(r)]_vars

\* C30: whenever SpeechState is Idle the segment buffer is empty.
C30_IdleBufferEmpty == ~is_speaking => speech_frames = <<>>

\* C30 witness: the handler is Idle with an empty buffer after the handoff of
\* a segment, and two frames have arrived since the last frame of the segment
C30_Witness ==
    /\ entry_pc = "listening"
    /\ ~is_speaking
    /\ speech_frames = <<>>
    /\ Len(handed_off) = 1
    /\ frame_count >= Last(handed_off[1]) + 2

\* ------------------------------------------------- termination (SpecLive)
\* the ids the utterance task and its reply task have after n prior turns,
\* the greeting and the ready notice
UtteranceIds == { n + 1 : n \in PriorTurns }
ReplyIds == { n + 3 : n \in PriorTurns }

\* a run of the reply task r
ReplyRuns(r) ==
    \/ SpeakStart(r)
    \/ SpeakChunk(r)
    \/ SpeakComplete(r)
    \/ SpeakError(r)
    \/ SpeakCancelled(r)

\* the event loop runs every task that is ready, the executor returns from
\* every transcription, every LLM request returns or raises, and every TTS
\* stream ends. Nothing is assumed about the user (StartOfSpeech).
LiveFairness ==
    /\ \A u \in UtteranceIds : WF_vars(TranscribeReturn(u, said))
    /\ \A u \in UtteranceIds : WF_vars(LLMSuccess(u) \/ LLMFail(u))
    /\ \A u \in UtteranceIds : WF_vars(UtteranceFinish(u))
    /\ \A r \in ReplyIds : WF_vars(ReplyRuns(r))

SpecLive == InitUtt /\ [][NextUtt]_vars /\ LiveFairness

\* C31: every reply task is eventually done; a reply whose cancellation was
\* requested keeps the request until it is done, forwards no further chunk
\* and is eventually done; and every utterance task eventually terminates.
C31_TasksTerminate ==
    /\ \A r \in ReplyIds : (r \in DOMAIN replies) ~> (r \notin DOMAIN replies)
    /\ \A r \in ReplyIds :
           (r \in DOMAIN replies /\ replies[r].cancel) ~> (r \notin DOMAIN replies)
    /\ [][\A r \in DOMAIN replies : replies[r].cancel =>
              /\ ~ForwardsChunk(r)
              /\ r \in DOMAIN replies' => replies'[r].cancel]_vars
    /\ \A u \in UtteranceIds : (u \in DOMAIN tasks) ~> (u \notin DOMAIN tasks)

\* C31 witness: the reply of the utterance was cancelled by a StartOfSpeech
\* before its task ran for the first time; the reply task and the utterance
\* task are done
C31_Witness ==
    /\ is_speaking
    /\ tasks = <<>>
    /\ replies = <<>>
    /\ next_rid = current_tts_task
    /\ messages # <<>>
    /\ Last(messages).role = "assistant"
    /\ Last(messages).content = next_uid

\* ------------------------------------------- track subscription (SpecTracks)
\* the room subscribes track t before on_track_subscribed is registered (or
\* after entrypoint() has returned): the track is in track_publications, no
\* callback of the agent runs
TrackSubscribedEarly(t) ==
    /\ entry_pc \notin {"start", "listening"}
    /\ track_events < MaxTrackEvents
    /\ published' = published \cup {t}
    /\ track_events' = track_events + 1
    /\ UNCHANGED <<entry_pc, entry_reply, already_handled, handlers, whisper_vars,
                   track_vars, task_vars, reply_vars, messages, llm_busy,
                   llm_failures, stt_vars>>

\* on_track_subscribed(track, ...): "if track.kind == KIND_AUDIO:
\* start_track_handler(track)"; the room reports a track again when it is
\* subscribed again
TrackSubscribed(t) ==
    /\ LoopFree
    /\ entry_pc = "listening"
    /\ track_events < MaxTrackEvents
    /\ published' = published \cup {t}
    /\ track_events' = track_events + 1
    /\ IF t \in AudioTracks
       THEN /\ already_handled' = HandledAfter(already_handled, t)
            /\ handlers' = StartedAfter(already_handled, handlers, t)
       ELSE UNCHANGED <<already_handled, handlers>>
    /\ UNCHANGED <<entry_pc, entry_reply, whisper_vars, track_vars, task_vars,
                   reply_vars, messages, llm_busy, llm_failures, stt_vars>>

TrackSubscribedEarlyStep == \E t \in Tracks : TrackSubscribedEarly(t)
TrackSubscribedStep == \E t \in Tracks : TrackSubscribed(t)

\* the participant joins with or without the microphone track published
InitTracks == InitState /\ said = <<>> /\ published \in {{}, MicOnly}

\* the start of a session and the subscriptions the room reports
NextTracks ==
    \/ EntryConnect
    \/ WhisperLoaded
    \/ WhisperSignal
    \/ WhisperFail
    \/ EntryGreet
    \/ EntryGreetDone
    \/ EntryReady
    \/ EntryTimeout
    \/ EntryListen
    \/ EntryReturn
    \/ SpeakStartStep
    \/ SpeakChunkStep
    \/ SpeakCompleteStep
    \/ TrackSubscribedEarlyStep
    \/ TrackSubscribedStep

SpecTracks == InitTracks /\ [][NextTracks]_vars

\* C32: at most one handler task is created for a track id, none for a track
\* that is not an audio track, and none for a track id that is not in
\* already_handled.
C32_OneHandlerPerTrack ==
    /\ \A t \in Tracks : handlers[t] <= 1
    /\ \A t \in Tracks \ AudioTracks : handlers[t] = 0
    /\ \A t \in Tracks : handlers[t] = 1 => t \in already_handled

\* C32 witness: the session listens, the room has reported more subscriptions
\* than there are tracks, so one track more than once or a track the scan
\* has seen, the video track is among them, and each of the two audio tracks
\* has its one handler
C32_Witness ==
    /\ entry_pc = "listening"
    /\ track_events > Cardinality(published \ MicOnly)
    /\ "cam" \in published
    /\ handlers["mic"] = 1
    /\ handlers["mic2"] = 1
    /\ handlers["cam"] = 0

====
